---- MODULE Spec2Model ----
(***************************************************************************)
(* Model of move_folders_by_excel_en.py (move_folders_by_excel.py is the   *)
(* same program with Chinese messages, its line numbers one lower in the   *)
(* task loop).                                                             *)
(*                                                                         *)
(* Strings are sequences of one-character strings, so that strip, lower,   *)
(* split and startswith are computed as Python computes them.  The file    *)
(* system is a function from the configured root paths to their state.     *)
(* The answers of the environment that the program cannot influence        *)
(* (whether the destination root can be created, whether the move of one   *)
(* directory raises) are fixed but unknown: they are decided the first     *)
(* time the program asks and stay the same afterwards.                     *)
(***************************************************************************)
EXTENDS Integers, Sequences, FiniteSets, TLC

\* Longest list of tasks in move_tasks.
MaxTasks == 2
\* Largest number of entries of the source directory at start.
MaxEntries == 2

----------------------------------------------------------------------------
\* Python str operations

\* str.strip() removes these (space, tab)
Whitespace == {" ", "\t"}

\* str.lower() on one character (the capital letters the names, keys and
\* cells of this model are written with)
LowerChar(c) ==
    CASE c = "A" -> "a" [] c = "B" -> "b" [] c = "C" -> "c"
      [] c = "H" -> "h" [] c = "J" -> "j" [] c = "N" -> "n"
      [] c = "O" -> "o" [] c = "U" -> "u" [] c = "X" -> "x"
      [] OTHER -> c

\* str.lower()
Lower(s) == [i \in 1..Len(s) |-> LowerChar(s[i])]

RECURSIVE LStrip(_)
LStrip(s) == IF s # <<>> /\ Head(s) \in Whitespace THEN LStrip(Tail(s)) ELSE s

RECURSIVE RStrip(_)
RStrip(s) ==
    IF s # <<>> /\ s[Len(s)] \in Whitespace
    THEN RStrip(SubSeq(s, 1, Len(s) - 1))
    ELSE s

\* str.strip()
Strip(s) == RStrip(LStrip(s))

\* '-' in folder_name
Contains(s, c) == \E i \in 1..Len(s) : s[i] = c

\* index of the first occurrence of c in s
FirstIndex(s, c) ==
    CHOOSE i \in 1..Len(s) : s[i] = c /\ \A j \in 1..(i - 1) : s[j] # c

\* folder_name.rsplit('-', 1): the split at the last occurrence
Split1_last(s, c) ==
    IF Contains(s, c)
    THEN LET i == CHOOSE k \in 1..Len(s) :
                      s[k] = c /\ \A j \in (k + 1)..Len(s) : s[j] # c
         IN  <<SubSeq(s, 1, i - 1), SubSeq(s, i + 1, Len(s))>>
    ELSE <<s>>

\* folder_name.split('-', 1): at most one split, at the first occurrence
Split1(s, c) ==
    IF Contains(s, c)
    THEN LET i == FirstIndex(s, c)
         IN  <<SubSeq(s, 1, i - 1), SubSeq(s, i + 1, Len(s))>>
    ELSE <<s>>

\* str.startswith
StartsWith(s, p) == Len(s) >= Len(p) /\ SubSeq(s, 1, Len(p)) = p

----------------------------------------------------------------------------
\* Values

\* Python None, where a string is expected (no string has this character)
None == <<"None">>
\* an empty spreadsheet cell (pandas NaN)
NaN == <<"NaN">>
\* the file object open() returns for move_file.log: on a medium that takes
\* every write, or on one where a write may raise
LogFile == <<"file">>
FaultyLogFile == <<"faulty file">>
\* a counter that has not been assigned yet
Unbound == -1

\* str(value): a missing cell becomes "nan", None becomes "None"
Str(cell) ==
    IF cell = NaN THEN <<"n", "a", "n">>
    ELSE IF cell = None THEN <<"N", "o", "n", "e">>
    ELSE cell

\* the literal prefix of line 198
Prefix001 == <<"0", "0", "1", "-">>

\* Directory and file names of the source folder
N_42john == <<"4", "2", "-", "j", "o", "h", "n">>
N_ABC == <<"A", "-", "B", "-", "C">>
N_dash_abc == <<"-", "a", "b", "c">>
N_abc == <<"a", "b", "c">>
N_file == <<"4", "2", "-", "x">>

DirNames == {N_42john, N_ABC, N_dash_abc, N_abc}
FileNames == {N_file}
EntryNames == DirNames \cup FileNames

\* Spreadsheet cells
K_42 == <<"4", "2">>
K_john == <<"J", "O", "H", "N">>
K_abc == <<" ", "a", "b", "c">>
V_UA == <<"U", "A">>
V_UA_sp == <<"U", "A", " ">>
V_XX == <<"X", "X">>

----------------------------------------------------------------------------
\* Spreadsheets (what pandas.read_excel finds at excel_path)

\* A column selector (name_col, filter_col): a column name, a 0-based
\* column index, or None.
ByName(n) == [t |-> "name", name |-> n, idx |-> 0]
ByIndex(i) == [t |-> "idx", name |-> "", idx |-> i]
NoCol == [t |-> "none", name |-> "", idx |-> 0]

\* The sheet of patients.xlsx below its header row: column names in sheet
\* order and the rows.
PatientSheet ==
    [columns |-> <<"PatientID", "Diagnosis">>,
     rows |-> << <<Prefix001 \o K_42, V_UA>>,
                 <<K_john, V_UA_sp>>,
                 <<K_abc, V_XX>>,
                 <<NaN, V_UA>> >>]

NoSheet == [columns |-> <<>>, rows |-> <<>>]

\* The file at excel_path: a readable workbook, no file, or a file that is
\* no workbook.
ExcelFile(path) ==
    CASE path = "patients.xlsx" -> [state |-> "ok", sheet |-> PatientSheet]
      [] path = "corrupt.xlsx" -> [state |-> "corrupt", sheet |-> NoSheet]
      [] OTHER -> [state |-> "missing", sheet |-> NoSheet]

\* str(i) for a column index
IntStr(i) == <<"0", "1", "2", "3", "4", "5", "6", "7", "8", "9">>[i + 1]

\* int(col) succeeds
CanInt(sel) == sel.t = "idx"

\* str(col)
StrCol(sel) == IF sel.t = "idx" THEN ByName(IntStr(sel.idx)) ELSE sel

\* lines 97-114: the usecols list handed to read_excel
UseColsList(name_col, filter_col) ==
    IF filter_col # NoCol /\ filter_col # name_col
    THEN IF CanInt(name_col) /\ CanInt(filter_col)
         THEN <<name_col>> \o
              (IF filter_col.idx # name_col.idx THEN <<filter_col>> ELSE <<>>)
         ELSE <<StrCol(name_col)>> \o
              (IF StrCol(filter_col) # StrCol(name_col)
               THEN <<StrCol(filter_col)>> ELSE <<>>)
    ELSE <<name_col>>

\* position (1-based) in the sheet of the column a selector names, 0 if none
ColumnPos(columns, sel) ==
    IF sel.t = "idx"
    THEN IF sel.idx + 1 \in 1..Len(columns) THEN sel.idx + 1 ELSE 0
    ELSE IF \E i \in 1..Len(columns) : columns[i] = sel.name
         THEN CHOOSE i \in 1..Len(columns) : columns[i] = sel.name
         ELSE 0

RECURSIVE Ascending(_)
\* the elements of a set of numbers, smallest first
Ascending(S) ==
    IF S = {} THEN <<>>
    ELSE LET m == CHOOSE x \in S : \A y \in S : x <= y
         IN  <<m>> \o Ascending(S \ {m})

\* pandas.read_excel(excel_path, usecols=use_cols_list): the selected
\* columns, in the order of the sheet whatever the order of usecols, or the
\* exception raised.
ReadExcel(excel_path, use_cols_list) ==
    LET f == ExcelFile(excel_path)
        cols == f.sheet.columns
        pos == {ColumnPos(cols, use_cols_list[k]) : k \in 1..Len(use_cols_list)}
        keep == Ascending(pos)
    IN  IF f.state = "missing" THEN [err |-> "FileNotFoundError", df |-> NoSheet]
        ELSE IF f.state = "corrupt" THEN [err |-> "Exception", df |-> NoSheet]
        ELSE IF 0 \in pos THEN [err |-> "ValueError", df |-> NoSheet]
        ELSE [err |-> "none",
              df |-> [columns |-> [k \in 1..Len(keep) |-> cols[keep[k]]],
                      rows |-> [r \in 1..Len(f.sheet.rows) |->
                                  [k \in 1..Len(keep) |-> f.sheet.rows[r][keep[k]]]]]]

RECURSIVE SelectRows(_, _, _)
\* the cells of column c of the rows whose mask is TRUE, in row order,
\* without the missing ones (dropna) and as strings (astype(str))
SelectRows(rows, c, mask) ==
    IF rows = <<>> THEN <<>>
    ELSE LET r == Head(rows)
             rest == SelectRows(Tail(rows), c, Tail(mask))
         IN  IF Head(mask) /\ r[c] # NaN THEN <<Str(r[c])>> \o rest ELSE rest

\* lines 150-190: the names/IDs taken from the DataFrame (its first column,
\* filtered on its second column), or the error that skips the task
ExtractNames(df, filter_col, filter_value) ==
    LET n == Len(df.columns)
        passes == [r \in 1..Len(df.rows) |->
                     n >= 2 /\ Strip(Str(df.rows[r][2])) = Strip(Str(filter_value))]
        all == [r \in 1..Len(df.rows) |-> TRUE]
    IN  IF filter_col # NoCol
        THEN IF n < 2 THEN [err |-> "InsufficientColumns", names |-> <<>>]
             ELSE [err |-> "none", names |-> SelectRows(df.rows, 1, passes)]
        ELSE IF n < 1 THEN [err |-> "NoColumns", names |-> <<>>]
             ELSE [err |-> "none", names |-> SelectRows(df.rows, 1, all)]

RECURSIVE RemovePrefix_repeated(_)
\* every leading '001-' removed instead of the first one only
RemovePrefix_repeated(name) ==
    IF StartsWith(Lower(Strip(name)), Prefix001)
    THEN RemovePrefix_repeated(SubSeq(Strip(name), Len(Prefix001) + 1, Len(Strip(name))))
    ELSE name

\* lines 196-204: one name with its '001-' prefix removed
RemovePrefix(name) ==
    IF StartsWith(Lower(Strip(name)), Prefix001)
    THEN SubSeq(Strip(name), Len(Prefix001) + 1, Len(Strip(name)))
    ELSE name

\* lines 193-205: processed_names_list
ProcessedNames(names) == [i \in 1..Len(names) |-> RemovePrefix(names[i])]

----------------------------------------------------------------------------
\* The matcher and the file system operations of the entry loop

RECURSIVE MatchLoop_no_break(_, _, _)
\* the loop of lines 240-249 without its break: the last match wins
MatchLoop_no_break(names, id_in_folder, name_in_folder) ==
    IF names = <<>> THEN None
    ELSE LET later == MatchLoop_no_break(Tail(names), id_in_folder, name_in_folder)
             processed_excel_value == Lower(Strip(Str(Head(names))))
         IN  IF later # None THEN later
             ELSE IF \/ processed_excel_value = Lower(id_in_folder)
                     \/ processed_excel_value = Lower(name_in_folder)
                  THEN Head(names)
                  ELSE None

RECURSIVE MatchLoop(_, _, _)
\* lines 239-249: the first value of names_list whose stripped lower-cased
\* form equals the lower-cased ID or name part of the folder, else None
MatchLoop(names, id_in_folder, name_in_folder) ==
    IF names = <<>> THEN None
    ELSE LET processed_excel_value == Lower(Strip(Str(Head(names))))
         IN  IF \/ processed_excel_value = Lower(id_in_folder)
                \/ processed_excel_value = Lower(name_in_folder)
             THEN Head(names)
             ELSE MatchLoop(Tail(names), id_in_folder, name_in_folder)

\* A directory of the file system: a function from the names of its entries
\* to [kind, data]; data tells the contents apart ("src": as found in the
\* source, "pre": found at the destination, "partial": an incomplete copy).
EmptyDir == [n \in {} |-> [kind |-> "dir", data |-> "src"]]
RemoveEntry(entries, n) == [x \in DOMAIN entries \ {n} |-> entries[x]]
PutEntry(entries, n, v) ==
    [x \in DOMAIN entries \cup {n} |-> IF x = n THEN v ELSE entries[x]]

\* os.path.exists(root)
PathExists(f, root) == f[root].kind # "missing"
\* os.path.exists(os.path.join(root, n))
EntryExists(f, root, n) == n \in DOMAIN f[root].entries
\* os.path.isdir(os.path.join(root, n))
IsDir(f, root, n) == EntryExists(f, root, n) /\ f[root].entries[n].kind = "dir"

\* os.makedirs(root) succeeded
MakeDirs(f, root) == [f EXCEPT ![root] = [kind |-> "dir", entries |-> EmptyDir]]

\* a move that reports success and moves nothing
MoveDir_dry_run(f, src, dst, n) == f

\* shutil.move(source_entry_path, target_folder_path) succeeded
MoveDir(f, src, dst, n) ==
    [f EXCEPT ![src].entries = RemoveEntry(@, n),
              ![dst].entries = PutEntry(@, n, f[src].entries[n])]

\* shutil.move raised after it had created the target (copy fallback)
PartialCopy(f, src, dst, n) ==
    [f EXCEPT ![dst].entries = PutEntry(@, n, [kind |-> "dir", data |-> "partial"])]

\* lines 229-249: the value matched for a folder name, None if there is none
\* or if the name has no 'ID-Name' form
MatchedValue(names, folder_name) ==
    LET folder_name_split == Split1(folder_name, "-")
    IN  IF Contains(folder_name, "-") /\ Len(folder_name_split) = 2
        THEN MatchLoop(names, Strip(folder_name_split[1]), Strip(folder_name_split[2]))
        ELSE None

\* lines 226-251: the entry is a directory whose name matched
IsMatched(f, t, names, e) ==
    IsDir(f, t.source_path, e) /\ MatchedValue(names, e) # None

\* line 257: the destination parent is missing, os.makedirs is called
AsksMkdir(f, t, names, e) ==
    IsMatched(f, t, names, e) /\ ~PathExists(f, t.destination_path)

\* the file system when line 267 is reached
AfterMkdir(f, t, names, e, mk) ==
    IF AsksMkdir(f, t, names, e) /\ mk = "ok"
    THEN MakeDirs(f, t.destination_path)
    ELSE f

\* the check of line 268 left out
TargetExists_unchecked(f, t, e) == FALSE

\* line 268: os.path.exists(target_folder_path)
TargetExists(f, t, e) == EntryExists(f, t.destination_path, e)

\* line 276: shutil.move is called
AsksMove(f, t, names, e, mk) ==
    /\ IsMatched(f, t, names, e)
    /\ ~(AsksMkdir(f, t, names, e) /\ mk # "ok")
    /\ ~TargetExists(AfterMkdir(f, t, names, e, mk), t, e)

\* the test of line 230 left out: a folder without '-' goes through the
\* matching like any other and ends up not matched
Classify_delimiter_untested(f, t, names, e, mk, mv) ==
    IF ~IsDir(f, t.source_path, e) THEN "file"
    ELSE IF MatchedValue(names, e) = None THEN "unmatched"
    ELSE IF AsksMkdir(f, t, names, e) /\ mk # "ok" THEN "mkdir_failed"
    ELSE IF TargetExists(AfterMkdir(f, t, names, e, mk), t, e) THEN "dest_exists"
    ELSE IF mv = "ok" THEN "moved"
    ELSE "move_failed"

\* lines 224-297: the branch of the loop body that entry e takes; mk and mv
\* are the outcomes of os.makedirs and shutil.move where they are called
Classify(f, t, names, e, mk, mv) ==
    IF ~IsDir(f, t.source_path, e) THEN "file"
    ELSE IF ~Contains(e, "-") THEN "no_delimiter"
    ELSE IF Len(Split1(e, "-")) # 2 THEN "bad_format"
    ELSE IF MatchedValue(names, e) = None THEN "unmatched"
    ELSE IF AsksMkdir(f, t, names, e) /\ mk # "ok" THEN "mkdir_failed"
    ELSE IF TargetExists(AfterMkdir(f, t, names, e, mk), t, e) THEN "dest_exists"
    ELSE IF mv = "ok" THEN "moved"
    ELSE "move_failed"

\* the file system after the loop body has run for entry e
AfterEntry(f, t, names, e, mk, mv) ==
    LET kind == Classify(f, t, names, e, mk, mv)
        f1 == AfterMkdir(f, t, names, e, mk)
    IN  IF kind = "moved" THEN MoveDir(f1, t.source_path, t.destination_path, e)
        ELSE IF kind = "move_failed" /\ mv = "partial"
             THEN PartialCopy(f1, t.source_path, t.destination_path, e)
        ELSE f1

\* line 264 left out
SkippedKinds_without_mkdir ==
    {"no_delimiter", "bad_format", "dest_exists", "move_failed"}

\* the branches that execute skipped_count += 1
SkippedKinds ==
    {"no_delimiter", "bad_format", "mkdir_failed", "dest_exists", "move_failed"}

\* the branches that print to the terminal
PrintedKinds == {"moved", "mkdir_failed", "dest_exists", "move_failed"}

\* the branches that write to the log (a file is passed over in silence)
LoggedKinds == SkippedKinds \cup {"moved", "unmatched"}

\* the except handler of line 280 left out: the exception of shutil.move
\* ends the script
AfterBranch_uncaught(kind) == IF kind = "move_failed" THEN "crashed" ELSE "entries"

\* where control goes after the loop body: every branch, the except
\* handlers included, goes on with the next entry
AfterBranch(kind) == "entries"

----------------------------------------------------------------------------
\* Configuration: the tasks move_tasks may hold

Task(excel, name_col, filter_col, filter_value) ==
    [excel_path |-> excel, name_col |-> name_col,
     filter_col |-> filter_col, filter_value |-> filter_value,
     source_path |-> "S", destination_path |-> "D"]

T_all == Task("patients.xlsx", ByName("PatientID"), NoCol, None)
T_flt == Task("patients.xlsx", ByName("PatientID"), ByName("Diagnosis"), V_UA)
T_nofile == Task("missing.xlsx", ByName("PatientID"), NoCol, None)
T_badcol == Task("patients.xlsx", ByName("Name"), ByName("Diagnosis"), V_UA)

TaskPool == {T_all, T_flt, T_nofile, T_badcol}

TaskLists == UNION {[1..n -> TaskPool] : n \in 1..MaxTasks}

\* the except handlers of lines 133-147 without their continue
Extraction_goes_on(t) ==
    LET r == ReadExcel(t.excel_path, UseColsList(t.name_col, t.filter_col))
    IN  IF r.err # "none" THEN [err |-> "none", names |-> <<>>]
        ELSE ExtractNames(r.df, t.filter_col, t.filter_value)

\* lines 97-190 for one task: the names/IDs extracted, or the error that
\* makes the task loop continue with the next task
Extraction(t) ==
    LET r == ReadExcel(t.excel_path, UseColsList(t.name_col, t.filter_col))
    IN  IF r.err # "none" THEN [err |-> r.err, names |-> <<>>]
        ELSE ExtractNames(r.df, t.filter_col, t.filter_value)

\* The root paths and what may be found there at start
Roots == {"S", "D"}
PreExisting == {N_42john}

EntryOf(n) == [kind |-> IF n \in FileNames THEN "file" ELSE "dir", data |-> "src"]

SourceStates ==
    {[kind |-> "missing", entries |-> EmptyDir],
     [kind |-> "locked", entries |-> EmptyDir]} \cup
    {[kind |-> "dir", entries |-> [n \in E |-> EntryOf(n)]] :
        E \in {X \in SUBSET EntryNames : Cardinality(X) <= MaxEntries}}

\* the destination root is missing, or holds folders from before the run (an
\* empty destination is the state after os.makedirs)
DestinationStates ==
    {[kind |-> "missing", entries |-> EmptyDir]} \cup
    {[kind |-> "dir", entries |-> [n \in E |-> [kind |-> "dir", data |-> "pre"]]] :
        E \in SUBSET PreExisting \ {{}}}

----------------------------------------------------------------------------
VARIABLES
    move_tasks,           \* the configured list of tasks
    ti,                   \* index of the task the for loop of line 78 is at
    pc,                   \* position in the script
    names_list,           \* line 151, 167, 189, 205
    listed,               \* the result of os.listdir(source_path), line 223
    listing,              \* the entries of listed the loop has yet to visit
    moved_count,          \* line 212
    skipped_count,        \* line 213
    not_matched_count,    \* line 214
    matched_excel_value,  \* line 239
    fs,                   \* the file system under the root paths
    env,                  \* the answers of the environment decided so far
    console,              \* the lines printed to the terminal
    log,                  \* the lines written to move_file.log
    phase,                \* the phase each task has reached
    prev_fs,              \* the file system when the previous task ended
    log_file_handle       \* line 22, 25: the log file, or None

vars == <<move_tasks, ti, pc, names_list, listed, listing, moved_count,
          skipped_count, not_matched_count, matched_excel_value, fs, env,
          console, log, phase, prev_fs, log_file_handle>>

\* a line of output: which task, which message, about which folder, with
\* which matched value and which counts
Line(k, kind, name, value, counts) ==
    [task |-> k, kind |-> kind, name |-> name, value |-> value, counts |-> counts]

task == move_tasks[ti]

Init ==
    /\ move_tasks \in TaskLists
    /\ ti = 0
    /\ pc = "for"
    /\ names_list = <<>>
    /\ listed = {}
    /\ listing = {}
    /\ moved_count = Unbound
    /\ skipped_count = Unbound
    /\ not_matched_count = Unbound
    /\ matched_excel_value = None
    /\ fs \in [Roots -> SourceStates \cup DestinationStates]
    /\ fs["S"] \in SourceStates
    /\ fs["D"] \in DestinationStates
    /\ env = [mkdir |-> "?", move |-> [n \in EntryNames |-> "?"]]
    /\ console = {}
    /\ log = {}
    /\ phase = [k \in 1..Len(move_tasks) |-> "NotStarted"]
    /\ prev_fs = fs
    /\ log_file_handle = LogFile

\* lines 27-34, log_message for the lines a step logs: the lines that reach
\* the file. Nothing is written without a handle; a healthy file takes every
\* line; on a faulty one (full disk, text that cannot be encoded) any write
\* may raise.
LogOutcomes(handle, lines) ==
    IF handle = None THEN {{}}
    ELSE IF handle = LogFile THEN {lines}
    ELSE SUBSET lines

\* lines 32-34: the error printed when a write has raised
LogErrors(handle, k, lines, written) ==
    IF handle # None /\ written # lines
    THEN {Line(k, "log_write_error", <<>>, None, <<>>)}
    ELSE {}

\* log_message without its guard and its try: a line that cannot be written
\* ends the script
AfterLog_raises(handle, lines, written, next) ==
    IF written # lines THEN "crashed" ELSE next

\* where control goes when log_message returns: it always returns
AfterLog(handle, lines, written, next) == next

\* the log_message and print calls of a step of task k, and where control
\* goes after them
Report(k, lines, printed, next) ==
    \E written \in LogOutcomes(log_file_handle, lines) :
        /\ log' = log \cup written
        /\ console' = console \cup printed \cup LogErrors(log_file_handle, k, lines, written)
        /\ pc' = AfterLog(log_file_handle, lines, written, next)

\* lines 308-309: log_file_handle.close() flushes what is buffered and
\* raises if that cannot be written
CloseLog(handle) == IF handle = FaultyLogFile THEN {"done", "crashed"} ELSE {"done"}

\* the answers the environment may give: the one it gave before, or any
Answers(known, all) == IF known = "?" THEN all ELSE {known}

\* lines 78-94: the for loop takes the next task
StartTask ==
    /\ pc = "for"
    /\ ti < Len(move_tasks)
    /\ ti' = ti + 1
    /\ phase' = [phase EXCEPT ![ti + 1] = "Configured"]
    /\ Report(ti + 1, {Line(ti + 1, "start", <<>>, None, <<>>)}, {}, "read_excel")
    /\ prev_fs' = fs
    /\ UNCHANGED <<move_tasks, names_list, listed, listing, moved_count,
                   skipped_count, not_matched_count, matched_excel_value,
                   fs, env, log_file_handle>>

\* lines 97-147, 155-158, 175-179, 184-187: the dataset cannot be read or
\* has too few columns; the message is logged and printed, continue
ExtractFails ==
    /\ pc = "read_excel"
    /\ Extraction(task).err # "none"
    /\ phase' = [phase EXCEPT ![ti] = "Aborted"]
    /\ Report(ti, {Line(ti, Extraction(task).err, <<>>, None, <<>>)},
                  {Line(ti, Extraction(task).err, <<>>, None, <<>>)}, "for")
    /\ UNCHANGED <<move_tasks, ti, names_list, listed, listing, moved_count,
                   skipped_count, not_matched_count, matched_excel_value,
                   fs, env, prev_fs, log_file_handle>>

\* lines 97-190: the dataset is read and names_list extracted
ExtractOK ==
    /\ pc = "read_excel"
    /\ Extraction(task).err = "none"
    /\ names_list' = Extraction(task).names
    /\ phase' = [phase EXCEPT ![ti] = "Normalizing"]
    /\ Report(ti, {Line(ti, "obtained", <<>>, None, <<Len(Extraction(task).names)>>)},
                  {}, "prefix")
    /\ UNCHANGED <<move_tasks, ti, listed, listing, moved_count,
                   skipped_count, not_matched_count, matched_excel_value,
                   fs, env, prev_fs, log_file_handle>>

\* lines 193-207: the '001-' prefixes are removed
RemovePrefixes ==
    /\ pc = "prefix"
    /\ names_list' = ProcessedNames(names_list)
    /\ phase' = [phase EXCEPT ![ti] = "Scanning"]
    /\ Report(ti,
         {Line(ti, "removed_prefix", names_list[i], RemovePrefix(names_list[i]), <<>>) :
            i \in {j \in 1..Len(names_list) : RemovePrefix(names_list[j]) # names_list[j]}},
         {}, "scan")
    /\ UNCHANGED <<move_tasks, ti, listed, listing, moved_count,
                   skipped_count, not_matched_count, matched_excel_value,
                   fs, env, prev_fs, log_file_handle>>

\* lines 210-220: the counters are reset; the source folder does not exist,
\* continue
SourceMissing ==
    /\ pc = "scan"
    /\ ~PathExists(fs, task.source_path)
    /\ moved_count' = 0
    /\ skipped_count' = 0
    /\ not_matched_count' = 0
    /\ phase' = [phase EXCEPT ![ti] = "Aborted"]
    /\ Report(ti, {Line(ti, "search", <<>>, None, <<>>),
                   Line(ti, "source_missing", <<>>, None, <<>>)},
                  {Line(ti, "source_missing", <<>>, None, <<>>)}, "for")
    /\ UNCHANGED <<move_tasks, ti, names_list, listed, listing,
                   matched_excel_value, fs, env, prev_fs, log_file_handle>>

\* lines 210-223: the counters are reset; the source path exists but
\* os.listdir raises (not a directory, no permission); nothing catches the
\* exception and the script ends with a traceback
ListdirRaises ==
    /\ pc = "scan"
    /\ fs[task.source_path].kind = "locked"
    /\ moved_count' = 0
    /\ skipped_count' = 0
    /\ not_matched_count' = 0
    /\ Report(ti, {Line(ti, "search", <<>>, None, <<>>)}, {}, "crashed")
    /\ UNCHANGED <<move_tasks, ti, names_list, listed, listing,
                   matched_excel_value, fs, env, phase, prev_fs, log_file_handle>>

\* lines 212-214 left out of the task loop: the counters go on from where
\* the previous task left them
ListSource_no_reset ==
    /\ pc = "scan"
    /\ fs[task.source_path].kind = "dir"
    /\ UNCHANGED <<moved_count, skipped_count, not_matched_count>>
    /\ listed' = DOMAIN fs[task.source_path].entries
    /\ listing' = DOMAIN fs[task.source_path].entries
    /\ phase' = [phase EXCEPT ![ti] = "Matching"]
    /\ Report(ti, {Line(ti, "search", <<>>, None, <<>>)}, {}, "entries")
    /\ UNCHANGED <<move_tasks, ti, names_list, matched_excel_value, fs, env,
                   prev_fs, log_file_handle>>

\* lines 210-223: the counters are reset and the source folder is listed
ListSource ==
    /\ pc = "scan"
    /\ fs[task.source_path].kind = "dir"
    /\ moved_count' = 0
    /\ skipped_count' = 0
    /\ not_matched_count' = 0
    /\ listed' = DOMAIN fs[task.source_path].entries
    /\ listing' = DOMAIN fs[task.source_path].entries
    /\ phase' = [phase EXCEPT ![ti] = "Matching"]
    /\ Report(ti, {Line(ti, "search", <<>>, None, <<>>)}, {}, "entries")
    /\ UNCHANGED <<move_tasks, ti, names_list, matched_excel_value, fs, env,
                   prev_fs, log_file_handle>>

\* lines 223-300: the loop body for one entry of the listing (os.listdir
\* returns the entries in arbitrary order)
ProcessEntry ==
    /\ pc = "entries"
    /\ \E e \in listing :
       \E mk \in IF AsksMkdir(fs, task, names_list, e)
                 THEN Answers(env.mkdir, {"ok", "fail"}) ELSE {env.mkdir} :
       \E mv \in IF AsksMove(fs, task, names_list, e, mk)
                 THEN Answers(env.move[e], {"ok", "raise", "partial"})
                 ELSE {env.move[e]} :
          LET kind == Classify(fs, task, names_list, e, mk, mv)
              line == Line(ti, kind, e, matched_excel_value', <<>>)
          IN  /\ listing' = listing \ {e}
              /\ env' = [mkdir |-> mk, move |-> [env.move EXCEPT ![e] = mv]]
              /\ fs' = AfterEntry(fs, task, names_list, e, mk, mv)
              /\ matched_excel_value' =
                    IF kind \in {"file", "no_delimiter", "bad_format"}
                    THEN matched_excel_value
                    ELSE MatchedValue(names_list, e)
              /\ moved_count' = moved_count + (IF kind = "moved" THEN 1 ELSE 0)
              /\ skipped_count' =
                    skipped_count + (IF kind \in SkippedKinds THEN 1 ELSE 0)
              /\ not_matched_count' =
                    not_matched_count + (IF kind = "unmatched" THEN 1 ELSE 0)
              /\ Report(ti,
                    (IF kind \in LoggedKinds THEN {line} ELSE {})
                        \cup (IF AsksMkdir(fs, task, names_list, e) /\ mk = "ok"
                              THEN {Line(ti, "created_parent", e, None, <<>>)} ELSE {}),
                    IF kind \in PrintedKinds THEN {line} ELSE {},
                    AfterBranch(kind))
    /\ UNCHANGED <<move_tasks, ti, names_list, listed, phase, prev_fs,
                   log_file_handle>>

\* lines 302-303: the listing is exhausted, the task summary is logged and
\* printed
Summarize ==
    /\ pc = "entries"
    /\ listing = {}
    /\ phase' = [phase EXCEPT ![ti] = "Summarized"]
    /\ Report(ti, {Line(ti, "summary", <<>>, None,
                        <<moved_count, skipped_count, not_matched_count>>)},
                  {Line(ti, "summary", <<>>, None, <<moved_count>>)}, "for")
    /\ UNCHANGED <<move_tasks, ti, names_list, listed, listing, moved_count,
                   skipped_count, not_matched_count, matched_excel_value,
                   fs, env, prev_fs, log_file_handle>>

\* lines 305-309: the for loop is exhausted, the final notice is printed
\* and the log file is closed
AllDone ==
    /\ pc = "for"
    /\ ti = Len(move_tasks)
    /\ pc' \in CloseLog(log_file_handle)
    /\ console' = console \cup {Line(0, "all_done", <<>>, None, <<>>)}
    /\ UNCHANGED <<move_tasks, ti, names_list, listed, listing, moved_count,
                   skipped_count, not_matched_count, matched_excel_value,
                   fs, env, log, phase, prev_fs, log_file_handle>>

Next ==
    \/ StartTask
    \/ ExtractFails
    \/ ExtractOK
    \/ RemovePrefixes
    \/ SourceMissing
    \/ ListdirRaises
    \/ ListSource
    \/ ProcessEntry
    \/ Summarize
    \/ AllDone

Spec == Init /\ [][Next]_vars

----------------------------------------------------------------------------
\* Properties

\* the run has ended: the script ran to its last line, or an exception
\* nobody caught ended it
RunEnded == pc \in {"done", "crashed"}

Terminal == {"Summarized", "Aborted"}

\* the lines of one kind that task k has written to the log
LogLines(k, kinds) == {l \in log : l.task = k /\ l.kind \in kinds}

\* a folder name of the form <id>-<label>: split at the first '-', both
\* parts non-empty after trimming
ValidName(n) ==
    /\ Contains(n, "-")
    /\ Strip(Split1(n, "-")[1]) # <<>>
    /\ Strip(Split1(n, "-")[2]) # <<>>

\* C1: never overwrite. When the loop body runs for a matched directory
\* whose target path exists at the destination, the file system is left as
\* it is (nothing is moved, the source entry and the target stay as they
\* are), skipped_count grows by exactly one, no other counter changes and
\* the loop goes on with the remaining entries.
C1_NeverOverwrite ==
    [][\A e \in listing :
         ( /\ pc = "entries"
           /\ listing' = listing \ {e}
           /\ IsMatched(fs, task, names_list, e)
           /\ e \in DOMAIN fs[task.destination_path].entries )
         => ( /\ fs' = fs
              /\ skipped_count' = skipped_count + 1
              /\ moved_count' = moved_count
              /\ not_matched_count' = not_matched_count
              /\ LogLines(ti, {"moved"})' = LogLines(ti, {"moved"})
              /\ pc' = "entries" )]_vars

\* C1 witness: a matched directory was skipped because its target exists,
\* and both the source entry and the older target are still there
C1_Witness ==
    \E l \in log :
        /\ l.kind = "dest_exists"
        /\ l.task = ti
        /\ l.name \in DOMAIN fs["S"].entries
        /\ l.name \in DOMAIN fs["D"].entries
        /\ fs["D"].entries[l.name].data = "pre"
        /\ skipped_count >= 1

\* C2: the run always completes. Whenever the run has ended, every task of
\* move_tasks has been started and the final notice has been printed.
C2_RunAlwaysCompletes ==
    RunEnded =>
        /\ pc = "done"
        /\ \A k \in 1..Len(move_tasks) : phase[k] # "NotStarted"
        /\ \E l \in console : l.kind = "all_done"

\* C3: idempotence. When a task is the same as the task before it, it runs
\* on the file system the first run left: it moves nothing (no move line,
\* moved_count is 0 once it is reset), leaves the file system as the first
\* run left it, and is not ended by an exception.
C3_Idempotent ==
    (ti >= 2 /\ move_tasks[ti] = move_tasks[ti - 1]) =>
        /\ fs = prev_fs
        /\ LogLines(ti, {"moved"}) = {}
        /\ \A l \in console : ~(l.task = ti /\ l.kind = "moved")
        /\ (phase[ti] \in {"Matching", "Summarized"} => moved_count = 0)
        /\ pc # "crashed"

\* C3 witness: the second of two equal tasks has reached its summary after
\* the first one moved a folder and left another one behind
C3_Witness ==
    /\ ti >= 2
    /\ move_tasks[ti] = move_tasks[ti - 1]
    /\ phase[ti] = "Summarized"
    /\ LogLines(ti - 1, {"moved"}) # {}
    /\ LogLines(ti, SkippedKinds \cup {"unmatched"}) # {}

\* C4: a directory leaves the source only if it is a valid <id>-<label>
\* entry matched by a candidate key of the current task, and it is then at
\* the destination under its own name; every other entry of the listing is
\* still in the source.
C4_OnlyValidMatchedLeave ==
    (ti >= 1 /\ phase[ti] \in {"Matching", "Summarized"}) =>
        \A n \in listed :
            n \notin DOMAIN fs[task.source_path].entries =>
                /\ ValidName(n)
                /\ MatchedValue(names_list, n) # None
                /\ n \in DOMAIN fs[task.destination_path].entries

\* the dataset of task k cannot be located
FileMissing(k) == ExcelFile(move_tasks[k].excel_path).state = "missing"

C6_TaskStateMachine ==
    /\ \A k \in 1..Len(move_tasks) :
          /\ k < ti => phase[k] \in Terminal
          /\ k > ti => phase[k] = "NotStarted"
          /\ phase[k] = "Aborted" =>
                /\ LogLines(k, {"moved"}) = {}
                /\ \A l \in console : ~(l.task = k /\ l.kind = "summary")
          /\ phase[k] = "Summarized" =>
                \E l \in console : l.task = k /\ l.kind = "summary"
    /\ RunEnded => \A k \in 1..ti : phase[k] \in Terminal

\* C7: a move that raises is caught. The entry is counted skipped once and
\* not moved (the counters equal the numbers of entries logged as skipped
\* and as moved), the task is not aborted and the script is not ended, and
\* once the task is summarized every directory of the listing has been
\* visited and the summary has been printed.
C7_MoveFailureCaught ==
    \A l \in log :
        l.kind = "move_failed" =>
            /\ phase[l.task] \in {"Matching", "Summarized"}
            /\ pc # "crashed"
            /\ phase[l.task] = "Summarized" =>
                  \E c \in console : c.task = l.task /\ c.kind = "summary"
            /\ l.task = ti =>
                  /\ skipped_count = Cardinality(LogLines(ti, SkippedKinds))
                  /\ moved_count = Cardinality(LogLines(ti, {"moved"}))
                  /\ \A m \in LogLines(ti, {"moved"}) : m.name # l.name
                  /\ phase[ti] = "Summarized" =>
                        /\ listing = {}
                        /\ \A n \in listed \cap DirNames :
                              \E v \in LogLines(ti, LoggedKinds) : v.name = n

\* C7 witness: a task with a failed move and at least one more directory
\* has been summarized
C7_Witness ==
    /\ ti >= 1
    /\ phase[ti] = "Summarized"
    /\ LogLines(ti, {"move_failed"}) # {}
    /\ Cardinality(LogLines(ti, LoggedKinds)) >= 2
    /\ skipped_count >= 1

\* C8: when the loop body runs for a matched directory and the destination
\* parent does not exist, either the parent is created (and is there for the
\* move), or its creation fails and then the entry is counted skipped, no
\* move is attempted, nothing changes on the file system and the loop goes
\* on with the next entry.
C8_ParentCreatedOrSkipped ==
    [][\A e \in listing :
         ( /\ pc = "entries"
           /\ listing' = listing \ {e}
           /\ IsMatched(fs, task, names_list, e)
           /\ fs[task.destination_path].kind = "missing" )
         => \/ /\ env'.mkdir = "ok"
               /\ fs'[task.destination_path].kind = "dir"
               /\ pc' = "entries"
            \/ /\ env'.mkdir = "fail"
               /\ fs' = fs
               /\ env'.move[e] = env.move[e]
               /\ skipped_count' = skipped_count + 1
               /\ moved_count' = moved_count
               /\ not_matched_count' = not_matched_count
               /\ LogLines(ti, {"moved", "move_failed"})' =
                     LogLines(ti, {"moved", "move_failed"})
               /\ pc' = "entries"]_vars

\* C8 witness: the creation of the destination parent failed for a matched
\* directory, which is still in the source, and the task went on to its
\* summary
C8_Witness ==
    /\ ti >= 1
    /\ phase[ti] = "Summarized"
    /\ fs["D"].kind = "missing"
    /\ \E l \in LogLines(ti, {"mkdir_failed"}) : l.name \in DOMAIN fs["S"].entries
    /\ skipped_count >= 1

\* C10 as stated: a directory whose name contains '-' but does not split
\* into two non-empty parts is logged as a format error (and so counted
\* skipped), never as unmatched, matched or moved.
C10_BadSplitSkipped ==
    \A l \in log :
        (l.kind \in LoggedKinds /\ Contains(l.name, "-") /\ ~ValidName(l.name))
            => l.kind = "bad_format"

\* C11: a directory whose name has no '-' is skipped for its format whatever
\* names_list holds: the step that visits it adds one to skipped_count,
\* leaves moved_count and not_matched_count alone, moves nothing and prints
\* nothing.
C11_NoDelimiterSkipped ==
    [][\A e \in listing \ listing' :
          (/\ fs[task.source_path].entries[e].kind = "dir"
           /\ \A i \in 1..Len(e) : e[i] # "-")
          => /\ skipped_count' = skipped_count + 1
             /\ moved_count' = moved_count
             /\ not_matched_count' = not_matched_count
             /\ fs' = fs
             /\ console' = console]_vars

\* C11 witness: folder abc was skipped for its format in a task whose
\* names_list holds a key that equals the whole name once trimmed
C11_Witness ==
    /\ \E l \in log : l.task = ti /\ l.kind = "no_delimiter" /\ l.name = N_abc
    /\ \E i \in 1..Len(names_list) : Lower(Strip(names_list[i])) = N_abc
    /\ skipped_count >= 1

\* C15: the terminal shows only the lines of successful moves, the task
\* summaries and the final notice.
C15_ConsoleOnlyMovesAndSummaries ==
    \A l \in console : l.kind \in {"moved", "summary", "all_done"}

\* the entries of the listing that were directories when the task started
ListedDirs(S) ==
    {e \in S : prev_fs[task.source_path].entries[e].kind = "dir"}

\* C17: from the listing of the source folder to the task summary, the three
\* counters add up to the number of directories of the listing visited so
\* far: zero when the scan starts, one more for each directory visited
\* (in exactly one counter), nothing for a file, and the number of
\* directories of the listing when the task is summarized.
C17_CountersAccountForListing ==
    (ti >= 1 /\ phase[ti] \in {"Matching", "Summarized"}) =>
        /\ moved_count >= 0 /\ skipped_count >= 0 /\ not_matched_count >= 0
        /\ moved_count + skipped_count + not_matched_count
              = Cardinality(ListedDirs(listed \ listing))

\* C17 witness: the second of two summarized tasks listed a file and one
\* directory and counted one, after a first task that counted some
C17_Witness ==
    /\ ti = 2 /\ pc = "for"
    /\ phase = <<"Summarized", "Summarized">>
    /\ listed \cap FileNames # {}
    /\ Cardinality(ListedDirs(listed)) = 1
    /\ moved_count + skipped_count + not_matched_count = 1
    /\ \E l \in log :
          l.task = 1 /\ l.kind = "summary"
              /\ l.counts[1] + l.counts[2] + l.counts[3] >= 1

----------------------------------------------------------------------------
\* The matcher on its own: the entry loop started on a source folder with
\* one entry and any short list of names/IDs

\* Longest names_list the matcher is run on.
MaxKeys == 2

KeyPool ==
    {K_42, <<"j", "o", "h", "n">>, K_john, <<" ", "4", "2", " ">>, <<"4">>,
     <<"B", "-", "C">>, <<"B">>, <<"C">>, <<>>}

KeyLists == UNION {[1..n -> KeyPool] : n \in 0..MaxKeys}

\* the state at line 223 of a single task with an arbitrary names_list
MatchInit ==
    /\ move_tasks = <<T_all>>
    /\ ti = 1
    /\ pc = "entries"
    /\ names_list \in KeyLists
    /\ fs \in [Roots -> SourceStates \cup DestinationStates]
    /\ fs["S"] \in {x \in SourceStates :
                      x.kind = "dir" /\ Cardinality(DOMAIN x.entries) = 1}
    /\ fs["D"] \in DestinationStates
    /\ listed = DOMAIN fs["S"].entries
    /\ listing = listed
    /\ moved_count = 0
    /\ skipped_count = 0
    /\ not_matched_count = 0
    /\ matched_excel_value = None
    /\ env = [mkdir |-> "?", move |-> [n \in EntryNames |-> "?"]]
    /\ console = {}
    /\ log = {Line(1, "start", <<>>, None, <<>>),
              Line(1, "obtained", <<>>, None, <<Len(names_list)>>)}
    /\ phase = <<"Matching">>
    /\ prev_fs = fs
    /\ log_file_handle = LogFile

MatchNext ==
    \/ ProcessEntry
    \/ Summarize
    \/ AllDone

MatchSpec == MatchInit /\ [][MatchNext]_vars

\* a candidate key equals the ID part or the name part of a folder name,
\* both sides trimmed and lower-cased
KeyEquals(k, n) ==
    \/ Lower(Strip(k)) = Lower(Strip(Split1(n, "-")[1]))
    \/ Lower(Strip(k)) = Lower(Strip(Split1(n, "-")[2]))

\* C9: for every valid directory the loop has visited, the value recorded as
\* matched is the first key of names_list, in list order, that equals the ID
\* or the name part; if no key is equal the directory is logged unmatched.
C9_FirstMatch ==
    \A l \in log :
        (l.kind \in LoggedKinds /\ ValidName(l.name)) =>
            LET hits == {i \in 1..Len(names_list) : KeyEquals(names_list[i], l.name)}
            IN  IF hits = {}
                THEN l.kind = "unmatched" /\ l.value = None
                ELSE /\ l.kind # "unmatched"
                     /\ \E i \in hits :
                           /\ \A j \in hits : i <= j
                           /\ l.value = names_list[i]

\* C9 witness: names_list is ["42", "john"], folder 42-john was moved and
\* the recorded match is "42"
C9_Witness ==
    /\ names_list = <<K_42, <<"j", "o", "h", "n">> >>
    /\ \E l \in log :
          l.kind = "moved" /\ l.name = N_42john /\ l.value = K_42

\* C12: a folder name with more than one '-' is split at the first '-' only:
\* the ID is the text before it and the name is all the text after it, both
\* trimmed. Such a folder is matched exactly when some key of names_list
\* equals (trimmed, lower-cased) that ID or that name; a key equal to a piece
\* between or after the later '-' does not match it.
C12_SplitAtFirstDelimiter ==
    \A l \in log :
        (/\ l.kind \in LoggedKinds
         /\ \E i, j \in 1..Len(l.name) :
               i < j /\ l.name[i] = "-" /\ l.name[j] = "-")
        => LET n == l.name
               d == CHOOSE i \in 1..Len(n) :
                       n[i] = "-" /\ \A j \in 1..(i - 1) : n[j] # "-"
               id == Strip(SubSeq(n, 1, d - 1))
               label == Strip(SubSeq(n, d + 1, Len(n)))
               hit == \E k \in 1..Len(names_list) :
                         Lower(Strip(names_list[k])) \in {Lower(id), Lower(label)}
           IN  (l.kind = "unmatched") <=> ~hit

\* C12 witness: names_list is ["C", "B-C"] and folder A-B-C was moved on the
\* key "B-C", the key "C" before it not matching
C12_Witness ==
    /\ names_list = << <<"C">>, <<"B", "-", "C">> >>
    /\ \E l \in log :
          l.kind = "moved" /\ l.name = N_ABC /\ l.value = <<"B", "-", "C">>

----------------------------------------------------------------------------
\* The prefix removal on its own: lines 193-207 run on any short list of
\* extracted values

RawKeyPool ==
    {<<"0", "0", "1", "-", "1", "2", "3">>,
     <<"0", "0", "1", "-", "0", "0", "1", "-", "5">>,
     <<"0", "0", "1", "a", "b", "c">>,
     <<" ", "0", "0", "1", "-", "7", " ">>,
     <<"0", "0", "1", "-">>,
     K_abc, K_42, K_john}

RawKeyLists == UNION {[1..n -> RawKeyPool] : n \in 0..MaxKeys}

\* the state at line 193 of a single task with an arbitrary names_list
NormInit ==
    /\ move_tasks = <<T_all>>
    /\ ti = 1
    /\ pc = "prefix"
    /\ names_list \in RawKeyLists
    /\ fs = [r \in Roots |-> [kind |-> "missing", entries |-> EmptyDir]]
    /\ listed = {}
    /\ listing = {}
    /\ moved_count = Unbound
    /\ skipped_count = Unbound
    /\ not_matched_count = Unbound
    /\ matched_excel_value = None
    /\ env = [mkdir |-> "?", move |-> [n \in EntryNames |-> "?"]]
    /\ console = {}
    /\ log = {Line(1, "start", <<>>, None, <<>>),
              Line(1, "obtained", <<>>, None, <<Len(names_list)>>)}
    /\ phase = <<"Normalizing">>
    /\ prev_fs = fs
    /\ log_file_handle = LogFile

NormNext == RemovePrefixes

NormSpec == NormInit /\ [][NormNext]_vars

\* a key with its leading and trailing whitespace removed
Trimmed(k) ==
    LET lead == {i \in 1..Len(k) : \A j \in 1..i : k[j] \in Whitespace}
        trail == {i \in 1..Len(k) : \A j \in i..Len(k) : k[j] \in Whitespace}
    IN  IF Cardinality(lead) = Len(k) THEN <<>>
        ELSE SubSeq(k, Cardinality(lead) + 1, Len(k) - Cardinality(trail))

\* the trimmed key begins with the four characters 001-
HasPrefix001(k) ==
    /\ Len(Trimmed(k)) >= 4
    /\ <<Trimmed(k)[1], Trimmed(k)[2], Trimmed(k)[3], Trimmed(k)[4]>> = <<"0", "0", "1", "-">>

\* the trimmed key without its first four characters
Unprefixed(k) == SubSeq(Trimmed(k), 5, Len(Trimmed(k)))

\* C13 as stated: the normalized list has the length and the order of the
\* raw list and its i-th element is the i-th raw key trimmed, without its
\* '001-' prefix if the trimmed key has one.
C13_KeysTrimmedAndUnprefixed ==
    [][pc = "prefix" =>
          /\ Len(names_list') = Len(names_list)
          /\ \A i \in 1..Len(names_list) :
                names_list'[i] = IF HasPrefix001(names_list[i])
                                 THEN Unprefixed(names_list[i])
                                 ELSE Trimmed(names_list[i])]_vars

\* C13 amended: the normalized list has the length and the order of the raw
\* list; its i-th element is the i-th raw key trimmed and without its first
\* '001-' if the trimmed key begins with '001-', and the i-th raw key as it
\* is, whitespace included, otherwise.
C13_PrefixedKeysTrimmedOthersKept ==
    [][pc = "prefix" =>
          /\ Len(names_list') = Len(names_list)
          /\ \A i \in 1..Len(names_list) :
                names_list'[i] = IF HasPrefix001(names_list[i])
                                 THEN Unprefixed(names_list[i])
                                 ELSE names_list[i]]_vars

\* C13 witness: the raw list ["001-001-5", " abc"] was normalized to
\* ["001-5", " abc"]
C13_Witness ==
    /\ pc = "scan"
    /\ names_list = << <<"0", "0", "1", "-", "5">>, K_abc >>
    /\ \E l \in log :
          /\ l.kind = "removed_prefix"
          /\ l.name = <<"0", "0", "1", "-", "0", "0", "1", "-", "5">>
          /\ l.value = <<"0", "0", "1", "-", "5">>

----------------------------------------------------------------------------
\* The extraction on its own: lines 97-190 run for one task, whose columns
\* are selected by name or by index, in either order

ColumnSelectors ==
    {ByName("PatientID"), ByName("Diagnosis"), ByIndex(0), ByIndex(1)}

FilterValues == {V_UA, V_XX, K_john, None}

ExtractTaskPool ==
    {Task(x, n, f, v) : x \in {"patients.xlsx", "missing.xlsx", "corrupt.xlsx"},
                        n \in ColumnSelectors,
                        f \in ColumnSelectors \cup {ByName("Name"), NoCol},
                        v \in FilterValues}

\* the state at line 97 of a single task
ExtractInit ==
    /\ move_tasks \in {<<t>> : t \in ExtractTaskPool}
    /\ ti = 1
    /\ pc = "read_excel"
    /\ names_list = <<>>
    /\ fs = [r \in Roots |-> [kind |-> "missing", entries |-> EmptyDir]]
    /\ listed = {}
    /\ listing = {}
    /\ moved_count = Unbound
    /\ skipped_count = Unbound
    /\ not_matched_count = Unbound
    /\ matched_excel_value = None
    /\ env = [mkdir |-> "?", move |-> [n \in EntryNames |-> "?"]]
    /\ console = {}
    /\ log = {Line(1, "start", <<>>, None, <<>>)}
    /\ phase = <<"Configured">>
    /\ prev_fs = fs
    /\ log_file_handle = LogFile

ExtractNext ==
    \/ ExtractFails
    \/ ExtractOK

ExtractSpec == ExtractInit /\ [][ExtractNext]_vars

RECURSIVE KeysOfRows(_, _, _, _)
\* the non-empty cells of column m, as strings and in row order, of the
\* rows whose cell in column f, as a trimmed string, equals v; of all rows
\* if f is 0
KeysOfRows(rows, m, f, v) ==
    IF rows = <<>> THEN <<>>
    ELSE LET r == Head(rows)
             rest == KeysOfRows(Tail(rows), m, f, v)
         IN  IF r[m] # NaN /\ (f = 0 \/ Strip(Str(r[f])) = v)
             THEN <<Str(r[m])>> \o rest
             ELSE rest

\* C14: when the extraction of a task succeeds, names_list holds exactly the
\* non-empty values of the match column, in row order, of the rows of the
\* sheet whose filter column (as a trimmed string) equals the filter value
\* (as a trimmed string), wherever the two columns stand in the sheet; of
\* all rows if the task has no filter.
C14_KeysOfMatchColumn ==
    pc = "prefix" =>
        LET sheet == ExcelFile(task.excel_path).sheet
            m == ColumnPos(sheet.columns, task.name_col)
            f == IF task.filter_col = NoCol THEN 0
                 ELSE ColumnPos(sheet.columns, task.filter_col)
        IN  (task.filter_col = NoCol \/ f # m) =>
               names_list = KeysOfRows(sheet.rows, m, f, Strip(Str(task.filter_value)))

----------------------------------------------------------------------------
\* The script with any log file: move_file.log cannot be opened (line 25),
\* or it is opened and takes every write, or it is opened and its writes
\* may raise

LogFileHandles == {LogFile, FaultyLogFile, None}

\* the state after lines 20-76: as Init, with one task (one whose dataset
\* is read, or one whose dataset is missing) and the message of line 24
\* printed if there is no handle
SinkInit ==
    /\ move_tasks \in {<<T_flt>>, <<T_nofile>>}
    /\ ti = 0
    /\ pc = "for"
    /\ names_list = <<>>
    /\ listed = {}
    /\ listing = {}
    /\ moved_count = Unbound
    /\ skipped_count = Unbound
    /\ not_matched_count = Unbound
    /\ matched_excel_value = None
    /\ fs \in [Roots -> SourceStates \cup DestinationStates]
    /\ fs["S"] \in SourceStates
    /\ fs["D"] \in DestinationStates
    /\ env = [mkdir |-> "?", move |-> [n \in EntryNames |-> "?"]]
    /\ log_file_handle \in LogFileHandles
    /\ console = IF log_file_handle = None
                 THEN {Line(0, "log_open_error", <<>>, None, <<>>)}
                 ELSE {}
    /\ log = {}
    /\ phase = [k \in 1..Len(move_tasks) |-> "NotStarted"]
    /\ prev_fs = fs

SinkSpec == SinkInit /\ [][Next]_vars

\* C16: with a log file that could not be opened or whose writes may fail,
\* every step does what it does with a healthy log file: no step ends the
\* script before the final notice (the only exception left is the one of
\* os.listdir, which a healthy log file does not prevent either), every
\* task is started, every entry visited is moved or left and counted as its
\* branch says, the task summary prints moved_count and the final notice is
\* printed.
C16_SinkFailureHarmless ==
    [][log_file_handle # LogFile =>
        /\ pc' = "crashed" =>
              \/ pc = "scan" /\ fs[task.source_path].kind = "locked"
              \/ pc = "for" /\ ti = Len(move_tasks)
        /\ (pc = "for" /\ ti < Len(move_tasks)) =>
              ti' = ti + 1 /\ pc' = "read_excel"
        /\ (pc = "for" /\ ti = Len(move_tasks)) =>
              Line(0, "all_done", <<>>, None, <<>>) \in console'
        /\ (pc = "entries" /\ listing = {}) =>
              /\ pc' = "for"
              /\ Line(ti, "summary", <<>>, None, <<moved_count>>) \in console'
        /\ \A e \in listing \ listing' :
              LET kind == Classify(fs, task, names_list, e, env'.mkdir, env'.move[e])
              IN  /\ pc' = "entries"
                  /\ fs' = AfterEntry(fs, task, names_list, e, env'.mkdir, env'.move[e])
                  /\ moved_count' = moved_count + (IF kind = "moved" THEN 1 ELSE 0)
                  /\ skipped_count' =
                        skipped_count + (IF kind \in SkippedKinds THEN 1 ELSE 0)
                  /\ not_matched_count' =
                        not_matched_count + (IF kind = "unmatched" THEN 1 ELSE 0)]_vars

\* C16 witness: on a faulty log file the write of a 'moved' line failed, the
\* error was printed, and the run went on to the task summary and the final
\* notice with the folder moved and counted
C16_Witness ==
    /\ log_file_handle = FaultyLogFile
    /\ pc = "done"
    /\ moved_count = 1
    /\ \E l \in console : l.kind = "moved" /\ l \notin log
    /\ \E l \in console : l.kind = "log_write_error"
    /\ \E l \in console : l.kind = "summary"
    /\ \E l \in console : l.kind = "all_done"

====
